---- MODULE Spec2Model ----
(***************************************************************************)
(* rltf: the off-policy agents (rltf/agents/off_pi.py), the C51 target     *)
(* projection (rltf/models/c51.py), the preset catalogue                   *)
(* (rltf/cmdutils/defaults.py) and the entry point                         *)
(* (examples/run_dqn_agent.py).                                            *)
(*                                                                         *)
(* The agents are modelled as threads stepping through the statements of   *)
(* their loops: a label names the statement a thread executes next, and a  *)
(* label ending in _run is a session run (sess.run, save) in progress.     *)
(***************************************************************************)
EXTENDS Integers, Sequences, FiniteSets, TLC

\* ------------------------------------------------------------------ bounds
\* The run's configuration, kept small: the loops run over
\* range(start_step, stop_step + 1).
start_step == 1
stop_step == 4
MaxWarmUp == 2
MaxTrainFreq == 2
MaxEvalFreq == 2
MaxEvalLen == 1
MaxResumeEvalLen == 3
MaxEvalCounter == 5
save_freq == 2
update_target_freq == 2
\* C51: the number of bins, the value range [-VSpan, VSpan], the actions, the
\* probabilities as multiples of 1/ProbUnits, the rewards -MaxRew..MaxRew and
\* the discounts 0/GammaDen..GammaDen/GammaDen
N == 3
VSpan == 2
n_actions == 2
ProbUnits == 2
MaxRew == 3
GammaDen == 2
\* the entry point: explore_decay is drawn from -1..MaxDecay, and a schedule is
\* queried at the steps 0..MaxStep
MaxDecay == 2
MaxStep == 4

VARIABLES
  strategy,      \* "par" | "seq": which agent class runs
  warm_up,       \* self.warm_up
  train_freq,    \* self.train_freq
  eval_len,      \* self.eval_len
  eval_freq,     \* self.eval_freq
  pcM,           \* the thread calling train(): its position
  pcE,           \* env_thread (_run_env) or train_thread (_train): position
  tE,            \* its loop variable t
  pcT,           \* net_thread (_train_model): position
  tT,            \* its loop variable t
  act_chosen,    \* self._act_chosen (threading.Event)
  train_done,    \* self._train_done (threading.Event)
  stored,        \* the replay buffer's "stored" event
  sampled,       \* the replay buffer's "sampled" event
  terminate,     \* self._terminate
  save_buf,      \* self._save_buf
  learn_started, \* self.learn_started
  action,        \* the action of the current step: which policy chose it
  obs,           \* the observation the next action is chosen on: what produced it
  t_eval,        \* the persisted eval-step counter (the TF variable t_eval)
  evStart,       \* eval(): start_step
  evStop,        \* eval(): stop_step
  te,            \* eval(): loop variable t
  mode,          \* self.env_monitor.mode
  buf,           \* the replay buffer: the transitions stored, in order
  trainLog,      \* history: the iterations whose train op has returned
  updLog,        \* history: the iterations whose target update has returned
  saveLog,       \* history: the iterations whose save() has returned
  sigLog,        \* history: the iterations after which train_done was signalled
  actLog,        \* history: the iterations whose action was chosen and signalled
  evEntry,       \* history: the eval-step counter when eval() was entered
  evSteps,       \* history: the evaluation steps the current eval() call ran
  evCalls,       \* history: the eval() calls that have returned
  evCut,         \* history: the current eval() call was cut by _terminate
  bufSeq,        \* the transitions a finished sequential run has stored
  c51,           \* C51._compute_target: its inputs and its result
  evLog,         \* history: the iterations in which eval() was called
  selLog,        \* history: the iterations whose action was selected
  smpLog,        \* history: the iterations whose batch was sampled
  termAt,        \* history: the iterations the workers were in when _terminate was set
  main,          \* run_dqn_agent.main: its position, arguments and calls
  reg            \* cmdutils/defaults.py: the module's namespace and a lookup

agentVars == <<strategy, warm_up, train_freq, eval_len, eval_freq, pcM, pcE, tE,
               pcT, tT, act_chosen, train_done, stored, sampled, terminate,
               save_buf, learn_started, action, obs, t_eval, evStart, evStop, te,
               mode, buf, trainLog, updLog, saveLog, sigLog, actLog, evEntry,
               evSteps, evCalls, evCut, bufSeq, evLog, selLog, smpLog, termAt>>

vars == <<agentVars, c51, main, reg>>

\* ------------------------------------------------------------ the loop tests
\* mutant: the warm-up is not tested
TrainDueNoWarmUp(t) == t % train_freq = 0

\* off_pi.py:235 and :325
TrainDue(t) == t >= warm_up /\ t % train_freq = 0

\* off_pi.py:186 and :297
EvalDue(t) == eval_len > 0 /\ t % eval_freq = 0

\* mutant: the target update follows the training period
UpdateDueTrainFreq(t) == t % train_freq = 0

\* off_pi.py:80
UpdateDue(t) == t % update_target_freq = 0

\* off_pi.py:249 and :334
SaveDue(t) == save_freq > 0 /\ t % save_freq = 0

\* range(self.start_step, self.stop_step+1): the label after iteration t
LoopNext(t) == IF t + 1 <= stop_step THEN "top" ELSE "done"

\* ------------------------------------------------------------ construction
\* OffPolicyAgent.__init__ and ParallelOffPolicyAgent.__init__
AgentInit(s) ==
  /\ strategy = s
  /\ pcM = "start"
  /\ pcE = "idle" /\ tE = start_step
  /\ pcT = "idle" /\ tT = start_step
  /\ act_chosen = FALSE
  /\ train_done = TRUE
  /\ stored = FALSE
  /\ sampled = TRUE
  /\ terminate = FALSE
  /\ save_buf = FALSE
  /\ learn_started = FALSE
  /\ action = "none"
  /\ obs = "none"
  /\ evStart = 0 /\ evStop = 0 /\ te = 0
  /\ mode = "t"
  /\ buf = <<>>
  /\ trainLog = {} /\ updLog = {} /\ saveLog = {} /\ sigLog = {}
  /\ actLog = {}
  /\ evEntry = 0 /\ evSteps = 0 /\ evCalls = 0 /\ evCut = FALSE
  /\ evLog = {} /\ selLog = {} /\ smpLog = {}
  /\ termAt = [set |-> FALSE]

\* no C51 target is being computed
C51Idle == [pc |-> "idle"]

\* the entry point is not running: the agent is driven directly
MainIdle == [pc |-> "none"]

\* cmdutils/defaults.py is not under study
RegIdle == [pc |-> "none"]

\* a fresh ParallelOffPolicyAgent, for every configuration within the bounds
Init ==
  /\ AgentInit("par")
  /\ warm_up \in 0..MaxWarmUp
  /\ train_freq \in 1..MaxTrainFreq
  /\ eval_len \in 0..MaxEvalLen
  /\ t_eval = 0
  /\ eval_freq \in 1..MaxEvalFreq
  /\ bufSeq = <<>>
  /\ c51 = C51Idle
  /\ main = MainIdle
  /\ reg = RegIdle

\* the variables by owner, for UNCHANGED
cfgVars == <<strategy, warm_up, train_freq, eval_len, eval_freq>>
evalVars == <<t_eval, evStart, evStop, te, mode, evEntry, evSteps, evCalls, evCut>>
extVars == <<c51, main, reg>>
auxVars == <<evLog, selLog, smpLog, extVars>>
histVars == <<trainLog, updLog, saveLog, sigLog, actLog, bufSeq, auxVars>>
eventVars == <<act_chosen, train_done>>
bufVars == <<stored, sampled, buf>>
flagVars == <<terminate, save_buf, termAt>>

\* ------------------------------------------------------------------ train()
\* train() is called: on the agent directly, or by main (run_dqn_agent.py:166)
TrainCalled == main.pc \in {"none", "run_train"}

\* off_pi.py:32-33: self.threads is [nn_thread, env_thread] (off_pi.py:167) or
\* [train_thread] (off_pi.py:285); the threads are started in that order.
StartThreads ==
  /\ TrainCalled
  /\ pcM = "start"
  /\ pcM' = "join"
  /\ pcE' = "reset"
  /\ pcT' = IF strategy = "par" THEN "top" ELSE "idle"
  /\ UNCHANGED <<cfgVars, tE, tT, eventVars, bufVars, flagVars, learn_started,
                 action, obs, evalVars, histVars>>

\* every thread of self.threads has returned
ThreadsDone == pcE = "done" /\ (strategy = "par" => pcT = "done")

\* off_pi.py:37-38, :42-43 and :50-51: t.join() for every thread, then return
Join ==
  /\ pcM \in {"join", "term_join", "intr_join"}
  /\ ThreadsDone
  /\ pcM' = "returned"
  /\ UNCHANGED <<cfgVars, pcE, tE, pcT, tT, eventVars, bufVars, flagVars,
                 learn_started, action, obs, evalVars, histVars>>

\* the last iteration whose top-of-loop test (off_pi.py:181, :231, :293) a
\* worker at pc with loop variable t has passed
Entered(pc, t) == IF pc \in {"idle", "reset", "top"} THEN t - 1 ELSE t

\* the last evaluation step whose test (off_pi.py:120) eval() has passed
EnteredEval ==
  IF pcE \in {"ev_inc", "ev_inc_run", "ev_act", "ev_act_run", "ev_step"}
    THEN te ELSE te - 1

\* recorded when _terminate is set: the iteration each worker is in (the
\* sequential agent trains in the iteration of its one thread), and the
\* evaluation step
Positions ==
  [set |-> TRUE,
   env |-> Entered(pcE, tE),
   net |-> IF strategy = "par" THEN Entered(pcT, tT) ELSE Entered(pcE, tE),
   ev |-> EnteredEval]

\* off_pi.py:46-51: the SIGTERM handler, run while train() waits in join()
Terminate ==
  /\ pcM = "join"
  /\ terminate' = TRUE
  /\ save_buf' = TRUE
  /\ termAt' = Positions
  /\ pcM' = "term_join"
  /\ UNCHANGED <<cfgVars, pcE, tE, pcT, tT, eventVars, bufVars, learn_started,
                 action, obs, evalVars, histVars>>

\* off_pi.py:39-43: KeyboardInterrupt raised in join()
KeyboardInterrupt ==
  /\ pcM = "join"
  /\ terminate' = TRUE
  /\ termAt' = Positions
  /\ pcM' = "intr_join"
  /\ UNCHANGED <<cfgVars, pcE, tE, pcT, tT, eventVars, bufVars, save_buf,
                 learn_started, action, obs, evalVars, histVars>>

\* ------------------------------------------------------------------ eval()
\* mutant: the stop step is not re-aligned (off_pi.py:115 left out)
EvalStopNoAlign(start, len) == start + len

\* mutant: the re-aligned stop step misses its + 1
EvalStopNoPlusOne(start, len) ==
  LET stop == start + len
  IN  stop - (stop % len)

\* off_pi.py:114-115
EvalStop(start, len) ==
  LET stop == start + len
  IN  stop - (stop % len) + 1

\* mutant: the training loop goes on without resetting the environment
EvalReturnNoReset == IF main.pc = "run_eval" THEN "done" ELSE "select"

\* the label eval() returns to: the training loops reset the environment
\* (off_pi.py:189, :300); called from the entry point (run_dqn_agent.py:167),
\* eval() returns to main
EvalReturn == IF main.pc = "run_eval" THEN "done" ELSE "ev_reset"

\* off_pi.py:111
EvalSetMode ==
  /\ pcE = "ev_mode"
  /\ mode' = "e"
  /\ evEntry' = t_eval
  /\ evSteps' = 0
  /\ evCut' = FALSE
  /\ evLog' = evLog \cup {tE}
  /\ pcE' = "ev_read"
  /\ UNCHANGED <<cfgVars, pcM, tE, pcT, tT, eventVars, bufVars, flagVars,
                 learn_started, action, obs, t_eval, evStart, evStop, te, evCalls,
                 trainLog, updLog, saveLog, sigLog, actLog, bufSeq, selLog, smpLog, extVars>>

\* off_pi.py:113: self.sess.run(self.t_eval) starts
EvalRead ==
  /\ pcE = "ev_read"
  /\ pcE' = "ev_read_run"
  /\ UNCHANGED <<cfgVars, pcM, tE, pcT, tT, eventVars, bufVars, flagVars,
                 learn_started, action, obs, evalVars, histVars>>

\* off_pi.py:113-117: the run returns; start_step, stop_step; obs = reset().
\* With eval_len = 0 the modulo of :115 raises ZeroDivisionError.
EvalReadReturn ==
  /\ pcE = "ev_read_run"
  /\ evStart' = t_eval + 1
  /\ IF eval_len = 0
       THEN /\ pcE' = "raised"
            /\ UNCHANGED <<evStop, te, obs>>
       ELSE /\ evStop' = EvalStop(t_eval + 1, eval_len)
            /\ te' = t_eval + 1
            /\ obs' = "reset"
            /\ pcE' = "ev_top"
  /\ UNCHANGED <<cfgVars, pcM, tE, pcT, tT, eventVars, bufVars, flagVars,
                 learn_started, action, t_eval, mode, evEntry, evSteps, evCalls,
                 evCut, histVars>>

\* mutant: a cut evaluation returns at once, the monitor is left as it is
EvalTopCutReturns ==
  /\ pcE = "ev_top"
  /\ pcE' = IF te >= evStop THEN "ev_end"
            ELSE IF terminate THEN EvalReturn ELSE "ev_inc"
  /\ evCut' = (te < evStop /\ terminate)
  /\ UNCHANGED <<cfgVars, pcM, tE, pcT, tT, eventVars, bufVars, flagVars,
                 learn_started, action, obs, t_eval, evStart, evStop, te, mode,
                 evEntry, evSteps, evCalls, histVars>>

\* off_pi.py:119-121: the loop test of range(start_step, stop_step), then the
\* _terminate test
EvalTop ==
  /\ pcE = "ev_top"
  /\ pcE' = IF te >= evStop \/ terminate THEN "ev_end" ELSE "ev_inc"
  /\ evCut' = (te < evStop /\ terminate)
  /\ UNCHANGED <<cfgVars, pcM, tE, pcT, tT, eventVars, bufVars, flagVars,
                 learn_started, action, obs, t_eval, evStart, evStop, te, mode,
                 evEntry, evSteps, evCalls, histVars>>

\* off_pi.py:124: self.sess.run(self.t_eval_inc) starts
EvalInc ==
  /\ pcE = "ev_inc"
  /\ pcE' = "ev_inc_run"
  /\ UNCHANGED <<cfgVars, pcM, tE, pcT, tT, eventVars, bufVars, flagVars,
                 learn_started, action, obs, evalVars, histVars>>

\* off_pi.py:124: the increment returns
EvalIncReturn ==
  /\ pcE = "ev_inc_run"
  /\ t_eval' = t_eval + 1
  /\ pcE' = "ev_act"
  /\ UNCHANGED <<cfgVars, pcM, tE, pcT, tT, eventVars, bufVars, flagVars,
                 learn_started, action, obs, evStart, evStop, te, mode, evEntry,
                 evSteps, evCalls, evCut, histVars>>

\* off_pi.py:126: self._action_eval(obs, t) runs the model
EvalAct ==
  /\ pcE = "ev_act"
  /\ pcE' = "ev_act_run"
  /\ UNCHANGED <<cfgVars, pcM, tE, pcT, tT, eventVars, bufVars, flagVars,
                 learn_started, action, obs, evalVars, histVars>>

\* off_pi.py:126: the action is returned
EvalActReturn ==
  /\ pcE = "ev_act_run"
  /\ pcE' = "ev_step"
  /\ UNCHANGED <<cfgVars, pcM, tE, pcT, tT, eventVars, bufVars, flagVars,
                 learn_started, action, obs, evalVars, histVars>>

\* off_pi.py:127-141: env.step, reset on done, logging; next t
EvalStep ==
  /\ pcE = "ev_step"
  /\ evSteps' = evSteps + 1
  /\ te' = te + 1
  /\ obs' = "eval"
  /\ pcE' = "ev_top"
  /\ UNCHANGED <<cfgVars, pcM, tE, pcT, tT, eventVars, bufVars, flagVars,
                 learn_started, action, t_eval, evStart, evStop, mode, evEntry,
                 evCalls, evCut, histVars>>

\* off_pi.py:144-146
EvalEnd ==
  /\ pcE = "ev_end"
  /\ mode' = "t"
  /\ evCalls' = evCalls + 1
  /\ pcE' = EvalReturn
  /\ UNCHANGED <<cfgVars, pcM, tE, pcT, tT, eventVars, bufVars, flagVars,
                 learn_started, action, obs, t_eval, evStart, evStop, te, evEntry,
                 evSteps, evCut, histVars>>

EvalNext ==
  \/ EvalSetMode
  \/ EvalRead
  \/ EvalReadReturn
  \/ EvalTop
  \/ EvalInc
  \/ EvalIncReturn
  \/ EvalAct
  \/ EvalActReturn
  \/ EvalStep
  \/ EvalEnd

\* ------------------------------------------------- the environment's loop
\* off_pi.py:178 and :290: obs = self.reset()
EnvReset ==
  /\ pcE = "reset"
  /\ obs' = "reset"
  /\ pcE' = "top"
  /\ UNCHANGED <<cfgVars, pcM, tE, pcT, tT, eventVars, bufVars, flagVars,
                 learn_started, action, evalVars, histVars>>

\* off_pi.py:181-183 (the parallel agent signals before it breaks) and
\* :293-294 (the sequential agent breaks)
BreakLabel == IF strategy = "par" THEN "exit_signal" ELSE "done"

\* mutant: the loop does not test _terminate
EnvTopNoTerminateTest ==
  /\ pcE = "top"
  /\ pcE' = IF EvalDue(tE) THEN "ev_mode" ELSE "select"
  /\ UNCHANGED <<cfgVars, pcM, tE, pcT, tT, eventVars, bufVars, flagVars,
                 learn_started, action, obs, evalVars, histVars>>

\* off_pi.py:180-187 and :292-298: the _terminate test, then the evaluation test
EnvTop ==
  /\ pcE = "top"
  /\ pcE' = IF terminate THEN BreakLabel
            ELSE IF EvalDue(tE) THEN "ev_mode" ELSE "select"
  /\ UNCHANGED <<cfgVars, pcM, tE, pcT, tT, eventVars, bufVars, flagVars,
                 learn_started, action, obs, evalVars, histVars>>

\* off_pi.py:182-183: self._signal_act_chosen(); break
EnvExitSignal ==
  /\ pcE = "exit_signal"
  /\ act_chosen' = TRUE
  /\ pcE' = "done"
  /\ UNCHANGED <<cfgVars, pcM, tE, pcT, tT, train_done, bufVars, flagVars,
                 learn_started, action, obs, evalVars, histVars>>

\* off_pi.py:189 and :300: obs = self.reset() after eval()
EnvResetAfterEval ==
  /\ pcE = "ev_reset"
  /\ obs' = "reset"
  /\ pcE' = "select"
  /\ UNCHANGED <<cfgVars, pcM, tE, pcT, tT, eventVars, bufVars, flagVars,
                 learn_started, action, evalVars, histVars>>

\* off_pi.py:200 (the parallel agent signals); the sequential agent goes on to
\* the increment (off_pi.py:311)
AfterSelect == IF strategy = "par" THEN "signal" ELSE "inc"

\* off_pi.py:192-197 and :303-308: learn_started is read; the training policy
\* runs the model, the random policy samples the action space
EnvSelect ==
  /\ pcE = "select"
  /\ action' = IF learn_started THEN "train" ELSE "random"
  /\ selLog' = selLog \cup {tE}
  /\ pcE' = IF learn_started THEN "select_run" ELSE AfterSelect
  /\ UNCHANGED <<cfgVars, pcM, tE, pcT, tT, eventVars, bufVars, flagVars,
                 learn_started, obs, evalVars, trainLog, updLog, saveLog, sigLog, actLog, bufSeq, evLog, smpLog, extVars>>

\* off_pi.py:193 and :304: self._action_train(obs, t) returns
EnvSelectReturn ==
  /\ pcE = "select_run"
  /\ pcE' = AfterSelect
  /\ UNCHANGED <<cfgVars, pcM, tE, pcT, tT, eventVars, bufVars, flagVars,
                 learn_started, action, obs, evalVars, histVars>>

\* off_pi.py:200 and :267-269
EnvSignalActChosen ==
  /\ pcE = "signal"
  /\ act_chosen' = TRUE
  /\ actLog' = actLog \cup {tE}
  /\ pcE' = "inc"
  /\ UNCHANGED <<cfgVars, pcM, tE, pcT, tT, train_done, bufVars, flagVars,
                 learn_started, action, obs, evalVars, trainLog, updLog, saveLog,
                 sigLog, bufSeq, auxVars>>

\* off_pi.py:203 and :311: self.sess.run(self.t_train_inc) starts
EnvInc ==
  /\ pcE = "inc"
  /\ pcE' = "inc_run"
  /\ UNCHANGED <<cfgVars, pcM, tE, pcT, tT, eventVars, bufVars, flagVars,
                 learn_started, action, obs, evalVars, histVars>>

\* off_pi.py:203 and :311: the increment returns
EnvIncReturn ==
  /\ pcE = "inc_run"
  /\ pcE' = "step"
  /\ UNCHANGED <<cfgVars, pcM, tE, pcT, tT, eventVars, bufVars, flagVars,
                 learn_started, action, obs, evalVars, histVars>>

\* off_pi.py:206 and :314: self.env.step(action)
EnvStep ==
  /\ pcE = "step"
  /\ obs' = "train"
  /\ pcE' = "store_wait"
  /\ UNCHANGED <<cfgVars, pcM, tE, pcT, tT, eventVars, bufVars, flagVars,
                 learn_started, action, evalVars, histVars>>

\* the replay buffer synchronises only for the parallel agent
Sync == strategy = "par"

\* replay_buf.store: waits until the last transition was sampled
StoreWait ==
  /\ pcE = "store_wait"
  /\ Sync => sampled
  /\ sampled' = IF Sync THEN FALSE ELSE sampled
  /\ pcE' = "store_write"
  /\ UNCHANGED <<cfgVars, pcM, tE, pcT, tT, eventVars, stored, buf, flagVars,
                 learn_started, action, obs, evalVars, histVars>>

\* the transition as the model keeps it: the step, the policy that chose the
\* action, and the evaluation steps run before it
Transition == [t |-> tE, policy |-> action, t_eval |-> t_eval]

\* replay_buf.store: the transition is written
StoreWrite ==
  /\ pcE = "store_write"
  /\ buf' = Append(buf, Transition)
  /\ pcE' = "store_signal"
  /\ UNCHANGED <<cfgVars, pcM, tE, pcT, tT, eventVars, stored, sampled, flagVars,
                 learn_started, action, obs, evalVars, histVars>>

\* off_pi.py:211-214 (log, then _wait_train_done) and :319-325 (the training
\* test of the sequential agent)
AfterStore == IF strategy = "par" THEN "wait_done" ELSE "train_check"

\* replay_buf.store: signals that a transition is stored
StoreSignal ==
  /\ pcE = "store_signal"
  /\ stored' = IF Sync THEN TRUE ELSE stored
  /\ pcE' = AfterStore
  /\ UNCHANGED <<cfgVars, pcM, tE, pcT, tT, eventVars, sampled, buf, flagVars,
                 learn_started, action, obs, evalVars, histVars>>

\* mutant: the environment thread does not wait for train_done
EnvWaitTrainDoneNoWait ==
  /\ pcE = "wait_done"
  /\ pcE' = "clear_done"
  /\ UNCHANGED <<cfgVars, pcM, tE, pcT, tT, eventVars, bufVars, flagVars,
                 learn_started, action, obs, evalVars, histVars>>

\* off_pi.py:214 and :263-264: while not self._train_done.is_set(): wait()
EnvWaitTrainDone ==
  /\ pcE = "wait_done"
  /\ train_done
  /\ pcE' = "clear_done"
  /\ UNCHANGED <<cfgVars, pcM, tE, pcT, tT, eventVars, bufVars, flagVars,
                 learn_started, action, obs, evalVars, histVars>>

\* off_pi.py:265: self._train_done.clear(); :216-219; the next t
EnvClearTrainDone ==
  /\ pcE = "clear_done"
  /\ train_done' = FALSE
  /\ pcE' = LoopNext(tE)
  /\ tE' = IF tE + 1 <= stop_step THEN tE + 1 ELSE tE
  /\ UNCHANGED <<cfgVars, pcM, pcT, tT, act_chosen, bufVars, flagVars,
                 learn_started, action, obs, evalVars, histVars>>

EnvNext ==
  \/ EnvReset
  \/ EnvTop
  \/ EnvResetAfterEval
  \/ EnvSelect
  \/ EnvSelectReturn
  \/ EnvInc
  \/ EnvIncReturn
  \/ EnvStep
  \/ StoreWait
  \/ StoreWrite
  \/ StoreSignal

\* the steps only _run_env takes
ParEnvNext ==
  \/ EnvSignalActChosen
  \/ EnvWaitTrainDone
  \/ EnvClearTrainDone

\* ------------------------------------------------------- _run_train_step
\* off_pi.py:237 and :327
SetLearnStarted ==
  /\ pcT = "set_learn"
  /\ learn_started' = TRUE
  /\ pcT' = "sample_wait"
  /\ UNCHANGED <<cfgVars, pcM, pcE, tE, tT, eventVars, bufVars, flagVars,
                 action, obs, evalVars, histVars>>

\* off_pi.py:67, replay_buf.sample: waits until a transition is stored
SampleWait ==
  /\ pcT = "sample_wait"
  /\ Sync => stored
  /\ stored' = IF Sync THEN FALSE ELSE stored
  /\ pcT' = "sample_read"
  /\ UNCHANGED <<cfgVars, pcM, pcE, tE, tT, eventVars, sampled, buf, flagVars,
                 learn_started, action, obs, evalVars, histVars>>

\* off_pi.py:67-68, replay_buf.sample: the batch is read
SampleRead ==
  /\ pcT = "sample_read"
  /\ smpLog' = smpLog \cup {tT}
  /\ pcT' = "sample_signal"
  /\ UNCHANGED <<cfgVars, pcM, pcE, tE, tT, eventVars, bufVars, flagVars,
                 learn_started, action, obs, evalVars, trainLog, updLog, saveLog, sigLog, actLog, bufSeq, evLog, selLog,
                 extVars>>

\* off_pi.py:67, replay_buf.sample: signals that the batch is sampled
SampleSignal ==
  /\ pcT = "sample_signal"
  /\ sampled' = IF Sync THEN TRUE ELSE sampled
  /\ pcT' = "wait_act"
  /\ UNCHANGED <<cfgVars, pcM, pcE, tE, tT, eventVars, stored, buf, flagVars,
                 learn_started, action, obs, evalVars, histVars>>

\* off_pi.py:257: the test of while not self._act_chosen.is_set()
ActChosenIsSet == act_chosen

\* off_pi.py:71 and :247; :257-258 (the parallel agent waits) and :341-342
\* (the sequential agent returns at once)
WaitActChosen ==
  /\ pcT = "wait_act"
  /\ Sync => ActChosenIsSet
  /\ pcT' = IF Sync THEN "clear_act" ELSE "train"
  /\ UNCHANGED <<cfgVars, pcM, pcE, tE, tT, eventVars, bufVars, flagVars,
                 learn_started, action, obs, evalVars, histVars>>

\* off_pi.py:249-252 and :334-338: what follows save()
AfterSave == IF strategy = "par" THEN "signal_done" ELSE "log"

\* mutant: train_done is signalled without the save that is due
AfterTrainStepNoSave(t) == AfterSave

\* off_pi.py:249 and :334: what follows the training step of iteration t
AfterTrainStep(t) == IF SaveDue(t) THEN "save" ELSE AfterSave

\* off_pi.py:259: self._act_chosen.clear(); the caller is _run_train_step
\* (:71) or the synchronising branch of _train_model (:247)
ClearActChosen ==
  /\ pcT = "clear_act"
  /\ act_chosen' = FALSE
  /\ pcT' = IF TrainDue(tT) THEN "train" ELSE AfterTrainStep(tT)
  /\ UNCHANGED <<cfgVars, pcM, pcE, tE, tT, train_done, bufVars, flagVars,
                 learn_started, action, obs, evalVars, histVars>>

\* off_pi.py:74-77: the train op starts
TrainOp ==
  /\ pcT = "train"
  /\ pcT' = "train_run"
  /\ UNCHANGED <<cfgVars, pcM, pcE, tE, tT, eventVars, bufVars, flagVars,
                 learn_started, action, obs, evalVars, histVars>>

\* off_pi.py:80: what follows the train op of iteration t
AfterTrainOp(t) == IF UpdateDue(t) THEN "update" ELSE AfterTrainStep(t)

\* off_pi.py:74-80: the train op returns
TrainOpReturn ==
  /\ pcT = "train_run"
  /\ trainLog' = trainLog \cup {tT}
  /\ pcT' = AfterTrainOp(tT)
  /\ UNCHANGED <<cfgVars, pcM, pcE, tE, tT, eventVars, bufVars, flagVars,
                 learn_started, action, obs, evalVars, updLog, saveLog, sigLog, actLog,
                 bufSeq, auxVars>>

\* off_pi.py:81: self.sess.run(self.model.update_target) starts
UpdateTarget ==
  /\ pcT = "update"
  /\ pcT' = "update_run"
  /\ UNCHANGED <<cfgVars, pcM, pcE, tE, tT, eventVars, bufVars, flagVars,
                 learn_started, action, obs, evalVars, histVars>>

\* off_pi.py:81: the target update returns
UpdateTargetReturn ==
  /\ pcT = "update_run"
  /\ updLog' = updLog \cup {tT}
  /\ pcT' = AfterTrainStep(tT)
  /\ UNCHANGED <<cfgVars, pcM, pcE, tE, tT, eventVars, bufVars, flagVars,
                 learn_started, action, obs, evalVars, trainLog, saveLog, sigLog, actLog,
                 bufSeq, auxVars>>

\* off_pi.py:250 and :335: self.save() starts
Save ==
  /\ pcT = "save"
  /\ pcT' = "save_run"
  /\ UNCHANGED <<cfgVars, pcM, pcE, tE, tT, eventVars, bufVars, flagVars,
                 learn_started, action, obs, evalVars, histVars>>

\* off_pi.py:250 and :335: self.save() returns
SaveReturn ==
  /\ pcT = "save_run"
  /\ saveLog' = saveLog \cup {tT}
  /\ pcT' = AfterSave
  /\ UNCHANGED <<cfgVars, pcM, pcE, tE, tT, eventVars, bufVars, flagVars,
                 learn_started, action, obs, evalVars, trainLog, updLog, sigLog, actLog,
                 bufSeq, auxVars>>

TrainStepNext ==
  \/ SetLearnStarted
  \/ SampleWait
  \/ SampleRead
  \/ SampleSignal
  \/ WaitActChosen
  \/ TrainOp
  \/ TrainOpReturn
  \/ UpdateTarget
  \/ UpdateTargetReturn
  \/ Save
  \/ SaveReturn

\* ------------------------------------------------------------ _train_model
\* mutant: the synchronising branch does not wait for the store
TrainTopNoWaitStored ==
  /\ pcT = "top"
  /\ pcT' = IF terminate THEN "exit_signal"
            ELSE IF TrainDue(tT) THEN "set_learn" ELSE "signal_sampled"
  /\ UNCHANGED <<cfgVars, pcM, pcE, tE, tT, eventVars, bufVars, flagVars,
                 learn_started, action, obs, evalVars, histVars>>

\* off_pi.py:230-235: the _terminate test, then the training test
TrainTop ==
  /\ pcT = "top"
  /\ pcT' = IF terminate THEN "exit_signal"
            ELSE IF TrainDue(tT) THEN "set_learn" ELSE "wait_stored"
  /\ UNCHANGED <<cfgVars, pcM, pcE, tE, tT, eventVars, bufVars, flagVars,
                 learn_started, action, obs, evalVars, histVars>>

\* off_pi.py:232-233: self._signal_train_done(); break
TrainExitSignal ==
  /\ pcT = "exit_signal"
  /\ train_done' = TRUE
  /\ pcT' = "done"
  /\ UNCHANGED <<cfgVars, pcM, pcE, tE, tT, act_chosen, bufVars, flagVars,
                 learn_started, action, obs, evalVars, histVars>>

\* off_pi.py:245, replay_buf.wait_stored: waits until a transition is stored
WaitStored ==
  /\ pcT = "wait_stored"
  /\ stored
  /\ stored' = FALSE
  /\ pcT' = "signal_sampled"
  /\ UNCHANGED <<cfgVars, pcM, pcE, tE, tT, eventVars, sampled, buf, flagVars,
                 learn_started, action, obs, evalVars, histVars>>

\* off_pi.py:246, replay_buf.signal_sampled
SignalSampled ==
  /\ pcT = "signal_sampled"
  /\ sampled' = TRUE
  /\ pcT' = "wait_act"
  /\ UNCHANGED <<cfgVars, pcM, pcE, tE, tT, eventVars, stored, buf, flagVars,
                 learn_started, action, obs, evalVars, histVars>>

\* off_pi.py:252 and :271-273: self._signal_train_done(); the next t
TrainSignalDone ==
  /\ pcT = "signal_done"
  /\ train_done' = TRUE
  /\ sigLog' = sigLog \cup {tT}
  /\ pcT' = LoopNext(tT)
  /\ tT' = IF tT + 1 <= stop_step THEN tT + 1 ELSE tT
  /\ UNCHANGED <<cfgVars, pcM, pcE, tE, act_chosen, bufVars, flagVars,
                 learn_started, action, obs, evalVars, trainLog, updLog, saveLog,
                 actLog, bufSeq, auxVars>>

ParTrainNext ==
  \/ TrainTop
  \/ WaitStored
  \/ SignalSampled
  \/ ClearActChosen
  \/ TrainSignalDone

\* ------------------------------------------------ SequentialOffPolicyAgent
\* off_pi.py:319-331: reset on done; the training test; the one thread goes
\* into _run_train_step or on to the save test
SeqTrainCheck ==
  /\ pcE = "train_check"
  /\ pcE' = "in_train"
  /\ tT' = tE
  /\ pcT' = IF TrainDue(tE) THEN "set_learn" ELSE AfterTrainStep(tE)
  /\ UNCHANGED <<cfgVars, pcM, tE, eventVars, bufVars, flagVars,
                 learn_started, action, obs, evalVars, histVars>>

\* off_pi.py:338: self._log_stats(t); the next t
SeqLog ==
  /\ pcT = "log"
  /\ pcT' = "idle"
  /\ pcE' = LoopNext(tE)
  /\ tE' = IF tE + 1 <= stop_step THEN tE + 1 ELSE tE
  /\ UNCHANGED <<cfgVars, pcM, tT, eventVars, bufVars, flagVars,
                 learn_started, action, obs, evalVars, histVars>>

SeqNext ==
  \/ SeqTrainCheck
  \/ SeqLog

\* ------------------------------------------------------ the specifications
\* the signal-then-break of the two threads of the parallel agent
ExitNext ==
  \/ EnvExitSignal
  \/ TrainExitSignal

\* SIGTERM and KeyboardInterrupt
InterruptNext ==
  \/ Terminate
  \/ KeyboardInterrupt

\* ParallelOffPolicyAgent.train(), with SIGTERM and KeyboardInterrupt
Next ==
  \/ StartThreads
  \/ Join
  \/ InterruptNext
  \/ EvalNext
  \/ EnvNext
  \/ ParEnvNext
  \/ TrainStepNext
  \/ ParTrainNext
  \/ ExitNext

Spec == Init /\ [][Next]_vars

\* a SequentialOffPolicyAgent, fresh or resumed with a persisted eval-step
\* counter, for every configuration within the bounds
SeqInit ==
  /\ AgentInit("seq")
  /\ warm_up \in 0..MaxWarmUp
  /\ train_freq \in 1..MaxTrainFreq
  /\ eval_len \in 0..MaxResumeEvalLen
  /\ t_eval \in 0..MaxEvalCounter
  /\ eval_freq \in 1..MaxEvalFreq
  /\ bufSeq = <<>>
  /\ c51 = C51Idle
  /\ main = MainIdle
  /\ reg = RegIdle

\* SequentialOffPolicyAgent.train(), with SIGTERM and KeyboardInterrupt
SeqAgentNext ==
  \/ StartThreads
  \/ Join
  \/ InterruptNext
  \/ EvalNext
  \/ EnvNext
  \/ TrainStepNext
  \/ SeqNext

SeqSpec == SeqInit /\ [][SeqAgentNext]_vars

\* the same configuration run by the sequential agent and then, from the same
\* start, by the parallel agent
EquivInit ==
  /\ AgentInit("seq")
  /\ warm_up \in 0..MaxWarmUp
  /\ train_freq \in 1..MaxTrainFreq
  /\ eval_len \in (0 - 1)..MaxEvalLen
  /\ t_eval = 0
  /\ eval_freq \in 1..MaxEvalFreq
  /\ bufSeq = <<>>
  /\ c51 = C51Idle
  /\ main = MainIdle
  /\ reg = RegIdle

\* the sequential run has returned: its transitions are kept and a fresh
\* ParallelOffPolicyAgent is constructed for the same configuration
Rerun ==
  /\ strategy = "seq"
  /\ pcM = "returned"
  /\ bufSeq' = buf
  /\ strategy' = "par"
  /\ pcM' = "start"
  /\ pcE' = "idle" /\ tE' = start_step
  /\ pcT' = "idle" /\ tT' = start_step
  /\ act_chosen' = FALSE
  /\ train_done' = TRUE
  /\ stored' = FALSE
  /\ sampled' = TRUE
  /\ terminate' = FALSE
  /\ save_buf' = FALSE
  /\ learn_started' = FALSE
  /\ action' = "none"
  /\ obs' = "none"
  /\ t_eval' = 0
  /\ evStart' = 0 /\ evStop' = 0 /\ te' = 0
  /\ mode' = "t"
  /\ buf' = <<>>
  /\ trainLog' = {} /\ updLog' = {} /\ saveLog' = {} /\ sigLog' = {}
  /\ actLog' = {}
  /\ evEntry' = 0 /\ evSteps' = 0 /\ evCalls' = 0 /\ evCut' = FALSE
  /\ evLog' = {} /\ selLog' = {} /\ smpLog' = {}
  /\ termAt' = [set |-> FALSE]
  /\ UNCHANGED <<warm_up, train_freq, eval_len, eval_freq, extVars>>

EquivNext ==
  \/ StartThreads
  \/ Join
  \/ Rerun
  \/ EvalNext
  \/ EnvNext
  \/ ParEnvNext
  \/ TrainStepNext
  \/ ParTrainNext
  \/ SeqNext

EquivSpec == EquivInit /\ [][EquivNext]_vars

\* ------------------------------------------------- C51._compute_target
\* Values are exact fractions. A support value is a numerator over
\* Den = (N - 1) * GammaDen, a bin index a numerator over IndDen, and a
\* probability a numerator over ProbUnits (over Mass once it is weighted by
\* a distance between bin indices).
V_min == 0 - VSpan
V_max == VSpan
Den == (N - 1) * GammaDen
IndDen == GammaDen * (V_max - V_min)
Mass == ProbUnits * IndDen

RECURSIVE SumTo(_, _)
\* f[1] + ... + f[n]
SumTo(f, n) == IF n = 0 THEN 0 ELSE f[n] + SumTo(f, n - 1)

\* the categorical distributions over the N bins
Dists == {d \in [1..N -> 0..ProbUnits] : SumTo(d, N) = ProbUnits}

\* c51.py:26 and :35: bin j (from 1) is V_min + (j - 1) * dz with
\* dz = (V_max - V_min) / (N - 1); its numerator over N - 1
BinNum(j) == V_min * (N - 1) + (j - 1) * (V_max - V_min)

\* c51.py:84: target_q of one action, its numerator over (N - 1) * ProbUnits
TargetQ(z) == SumTo([j \in 1..N |-> z[j] * BinNum(j)], N)

\* c51.py:85: tf.argmax, the first action of the largest target_q
TargetAct(zs) ==
  CHOOSE a \in 1..n_actions :
    /\ \A b \in 1..n_actions : TargetQ(zs[a]) >= TargetQ(zs[b])
    /\ \A b \in 1..(a - 1) : TargetQ(zs[b]) < TargetQ(zs[a])

\* c51.py:90: done_mask
DoneMask(done) == IF done THEN 0 ELSE 1

\* c51.py:95: tf.clip_by_value
Clip(x, lo, hi) == IF x < lo THEN lo ELSE IF x > hi THEN hi ELSE x

\* c51.py:94-95: target_bins of bin j, its numerator over Den
TargetBin(rew, done, g, j) ==
  Clip(rew * Den + g * DoneMask(done) * BinNum(j), V_min * Den, V_max * Den)

\* c51.py:98: bin_inds of bin j, its numerator over IndDen
BinInd(rew, done, g, j) == TargetBin(rew, done, g, j) - V_min * Den

\* c51.py:99: tf.floor
Floor(a, b) == a \div b

\* c51.py:100: tf.ceil
Ceil(a, b) == (a + b - 1) \div b

\* c51.py:102: lo_add of bin j, its numerator over Mass
LoAdd(z, rew, done, g, j) ==
  LET b == BinInd(rew, done, g, j)
  IN  z[j] * (Ceil(b, IndDen) * IndDen - b)

\* c51.py:103: hi_add of bin j, its numerator over Mass
HiAdd(z, rew, done, g, j) ==
  LET b == BinInd(rew, done, g, j)
  IN  z[j] * (b - Floor(b, IndDen) * IndDen)

\* c51.py:107-123: the two scatter_nd_add into the zeroed row: bin k (from 0)
\* of the row's projected distribution, its numerator over Mass
ProjectRow(z, rew, done, g) ==
  [k \in 0..(N - 1) |->
     SumTo([j \in 1..N |->
              (IF Floor(BinInd(rew, done, g, j), IndDen) = k
                 THEN LoAdd(z, rew, done, g, j) ELSE 0)
              + (IF Ceil(BinInd(rew, done, g, j), IndDen) = k
                   THEN HiAdd(z, rew, done, g, j) ELSE 0)], N)]

\* c51.py:80-125: the target of every row of the batch; the row's target_z is
\* the distribution of the greedy action (c51.py:84-87)
ComputeTarget(batch, g) ==
  [r \in DOMAIN batch |->
     ProjectRow(batch[r].z[TargetAct(batch[r].z)], batch[r].rew,
                batch[r].done, g)]

\* the target network's output with the actions in reverse order
Reversed(zs) == [a \in 1..n_actions |-> zs[n_actions + 1 - a]]

\* a batch of two rows and a discount, within the bounds
C51Init ==
  /\ \E zs \in [1..n_actions -> Dists], r1, r2 \in (0 - MaxRew)..MaxRew,
        d1, d2 \in BOOLEAN, g \in 0..GammaDen :
       c51 = [pc |-> "ready",
              batch |-> <<[z |-> zs, rew |-> r1, done |-> d1],
                          [z |-> Reversed(zs), rew |-> r2, done |-> d2]>>,
              gamma |-> g]
  /\ AgentInit("none")
  /\ warm_up = 0 /\ train_freq = 1 /\ eval_len = 0 /\ t_eval = 0
  /\ eval_freq = 1
  /\ bufSeq = <<>>
  /\ main = MainIdle
  /\ reg = RegIdle

\* c51.py:80-125: the target op is run on the batch
C51ComputeTarget ==
  /\ c51.pc = "ready"
  /\ c51' = [pc |-> "done", batch |-> c51.batch, gamma |-> c51.gamma,
             target_z |-> ComputeTarget(c51.batch, c51.gamma)]
  /\ UNCHANGED <<agentVars, main, reg>>

C51Next == C51ComputeTarget

C51Spec == C51Init /\ [][C51Next]_vars

\* ------------------------------------------------ cmdutils/defaults.py
\* A preset is a dict: a function from its keys to their values. Integers
\* are kept, every other value is the text of its expression. A module
\* variable is a reference to the dict object it was bound to: reg.var maps
\* a variable to its object and reg.ns an object to its content. Every
\* assignment of the module binds a new object, which is named after the
\* variable it is first bound to.
EmptyDict == [k \in {} |-> 0]

\* mutant: the keys of the base win over the overrides
MergeBaseWins(base, over) ==
  [k \in DOMAIN base \cup DOMAIN over |->
     IF k \in DOMAIN base THEN base[k] ELSE over[k]]

\* {**base, **over}: a new dict; later keys override earlier ones
Merge(base, over) ==
  [k \in DOMAIN base \cup DOMAIN over |->
     IF k \in DOMAIN over THEN over[k] ELSE base[k]]

\* defaults.py:19-36
dqn_spec ==
  [base |-> "none",
   over |-> [warm_up |-> 50000, train_period |-> 4,
             target_update_period |-> 10000, stop_step |-> 50000000,
             eval_period |-> 250000, eval_len |-> 125000, batch_size |-> 32,
             gamma |-> "0.99", memory_size |-> 1000000, stack_frames |-> 4,
             log_period |-> 50000, save_period |-> 1000000,
             video_period |-> 1000, save_buf |-> TRUE,
             env_kwargs |-> "ArgSpec(dict, max_ep_steps_train=108000, max_ep_steps_eval=108000)"]]

\* defaults.py:40-48
DQN ==
  [base |-> "dqn_spec",
   over |-> [agent |-> "agents.AgentDQN", model |-> "models.DQN",
             huber_loss |-> TRUE,
             opt_conf |-> "ArgSpec(OptimizerConf, opt_type=RMSPropOptimizer, learn_rate=25e-5, epsilon=1e-5, decay=0.95)",
             epsilon_train |-> "ArgSpec(PiecewiseSchedule, endpoints=[(0, 1.0), (10**6, 0.01)], outside_value=0.01)",
             epsilon_eval |-> "0.001"]]

\* defaults.py:50-57
DDQN ==
  [base |-> "dqn_spec",
   over |-> [agent |-> "agents.AgentDQN", model |-> "models.DDQN",
             huber_loss |-> TRUE,
             opt_conf |-> "ArgSpec(OptimizerConf, opt_type=RMSPropOptimizer, learn_rate=25e-5, epsilon=1e-5, decay=0.95)",
             epsilon_train |-> "ArgSpec(PiecewiseSchedule, endpoints=[(0, 1.0), (10**6, 0.01)], outside_value=0.01)",
             epsilon_eval |-> "0.001"]]

\* defaults.py:59-67
BstrapDQN ==
  [base |-> "dqn_spec",
   over |-> [agent |-> "agents.AgentDQN", model |-> "models.BstrapDQN",
             n_heads |-> 10, huber_loss |-> TRUE,
             opt_conf |-> "ArgSpec(OptimizerConf, opt_type=RMSPropOptimizer, learn_rate=25e-5, epsilon=1e-5, decay=0.95)",
             epsilon_train |-> "ArgSpec(PiecewiseSchedule, endpoints=[(0, 1.0), (10**6, 0.01)], outside_value=0.01)",
             epsilon_eval |-> "0.001"]]

\* defaults.py:69-78
C51 ==
  [base |-> "dqn_spec",
   over |-> [agent |-> "agents.AgentDQN", model |-> "models.C51",
             V_min |-> 0 - 10, V_max |-> 10, N |-> 51,
             opt_conf |-> "ArgSpec(OptimizerConf, opt_type=tf.train.AdamOptimizer, learn_rate=25e-5, epsilon=.01/32)",
             epsilon_train |-> "ArgSpec(PiecewiseSchedule, endpoints=[(0, 1.0), (10**6, 0.01)], outside_value=0.01)",
             epsilon_eval |-> "0.001"]]

\* defaults.py:80-88
QRDQN ==
  [base |-> "dqn_spec",
   over |-> [agent |-> "agents.AgentDQN", model |-> "models.QRDQN",
             N |-> 200, k |-> 1,
             opt_conf |-> "ArgSpec(OptimizerConf, opt_type=tf.train.AdamOptimizer, learn_rate=5e-5, epsilon=.01/32)",
             epsilon_train |-> "ArgSpec(PiecewiseSchedule, endpoints=[(0, 1.0), (10**6, 0.01)], outside_value=0.01)",
             epsilon_eval |-> "0.001"]]

\* defaults.py:90-93
BstrapDQN_UCB ==
  [base |-> "BstrapDQN",
   over |-> [n_stds |-> "0.1", target_update_period |-> 40000]]

\* defaults.py:95
BstrapDQN_Ensemble == [base |-> "BstrapDQN", over |-> EmptyDict]

\* defaults.py:103-135
DDPG ==
  [base |-> "none",
   over |-> [agent |-> "agents.AgentDDPG", model |-> "models.DDPG",
             obs_norm |-> FALSE, batch_norm |-> FALSE, critic_reg |-> "0.0",
             critic_huber_loss |-> FALSE, tau |-> "0.001", batch_size |-> 64,
             gamma |-> "0.99", memory_size |-> 1000000, stack_frames |-> 3,
             actor_opt_conf |-> "ArgSpec(OptimizerConf, opt_type=tf.train.AdamOptimizer, learn_rate=1e-4)",
             critic_opt_conf |-> "ArgSpec(OptimizerConf, opt_type=tf.train.AdamOptimizer, learn_rate=1e-3)",
             action_noise |-> "lambda shape=(1,): ArgSpec(DecayedExplorationNoise, ...)",
             warm_up |-> 10000, train_period |-> 1,
             target_update_period |-> 1, stop_step |-> 2500000,
             eval_period |-> 500000, eval_len |-> 50000, log_period |-> 50000,
             video_period |-> 500, save_period |-> 500000, save_buf |-> TRUE,
             env_kwargs |-> "ArgSpec(dict, max_ep_steps_train=None, max_ep_steps_eval=None, rew_scale=1.0)"]]

\* defaults.py:138-160
REINFORCE ==
  [base |-> "none",
   over |-> [agent |-> "agents.AgentPG", model |-> "models.REINFORCE",
             pi_opt_conf |-> "ArgSpec(OptimizerConf, opt_type=tf.train.AdamOptimizer, learn_rate=5e-3)",
             vf_opt_conf |-> "ArgSpec(OptimizerConf, opt_type=tf.train.AdamOptimizer, learn_rate=5e-3)",
             layers |-> <<64, 64>>, activation |-> "tf.tanh",
             obs_norm |-> FALSE, nn_std |-> FALSE, gamma |-> "0.99",
             lam |-> "0.97", path_len |-> 1000, stop_step |-> 1000000,
             vf_iters |-> 1, stack_frames |-> 3, eval_period |-> 10,
             eval_len |-> 1000, log_period |-> 1, video_period |-> 500,
             save_period |-> 10,
             env_kwargs |-> "ArgSpec(dict, max_ep_steps_train=None, max_ep_steps_eval=None, rew_scale=1.0)"]]

\* defaults.py:163-189
PPO ==
  [base |-> "none",
   over |-> [agent |-> "agents.AgentPPO", model |-> "models.PPO",
             pi_opt_conf |-> "ArgSpec(OptimizerConf, opt_type=tf.train.AdamOptimizer, learn_rate=5e-3)",
             vf_opt_conf |-> "ArgSpec(OptimizerConf, opt_type=tf.train.AdamOptimizer, learn_rate=5e-3)",
             layers |-> <<64, 64>>, activation |-> "tf.tanh",
             obs_norm |-> FALSE, nn_std |-> FALSE, ent_weight |-> "0.1",
             vf_weight |-> "0.5", gamma |-> "0.99", lam |-> "0.95",
             path_len |-> 1000, train_steps |-> 4, batch_size |-> 512,
             clip_range |-> "ArgSpec(ConstSchedule, value=0.2)",
             stop_step |-> 1000000, stack_frames |-> 3, eval_period |-> 10,
             eval_len |-> 1000, log_period |-> 1, video_period |-> 500,
             save_period |-> 10,
             env_kwargs |-> "ArgSpec(dict, max_ep_steps_train=None, max_ep_steps_eval=None, rew_scale=1.0)"]]

\* the assignments of the module in source order: the variable and the
\* expression bound to it
Assignments ==
  << <<"dqn_spec", dqn_spec>>, <<"DQN", DQN>>, <<"DDQN", DDQN>>,
     <<"BstrapDQN", BstrapDQN>>, <<"C51", C51>>, <<"QRDQN", QRDQN>>,
     <<"BstrapDQN_UCB", BstrapDQN_UCB>>,
     <<"BstrapDQN_Ensemble", BstrapDQN_Ensemble>>, <<"DDPG", DDPG>>,
     <<"REINFORCE", REINFORCE>>, <<"PPO", PPO>> >>

\* defaults.py:197-208: the catalogue, from a name to the variable whose
\* object it holds
MODELS ==
  [DQN |-> "DQN", DDQN |-> "DDQN", C51 |-> "C51", QRDQN |-> "QRDQN",
   BstrapDQN |-> "BstrapDQN", BstrapDQN_UCB |-> "BstrapDQN_UCB",
   BstrapDQN_Ensemble |-> "BstrapDQN_Ensemble", DDPG |-> "DDPG",
   REINFORCE |-> "REINFORCE", PPO |-> "PPO"]

\* the value of an assignment's right-hand side in the namespace ns
EvalExpr(expr, ns) ==
  IF expr.base = "none" THEN expr.over ELSE Merge(ns[expr.base], expr.over)

\* mutant: a merge without overrides gives the base object itself, as the
\* plain assignment BstrapDQN_Ensemble = BstrapDQN would
NewObjectShared(name, expr, var) ==
  IF expr.base # "none" /\ DOMAIN expr.over = {} THEN var[expr.base] ELSE name

\* dict(...) and {**base, **dict(...)} build a new dict object each time
\* (defaults.py:19, :40, ..., :95, :163): the object an assignment binds its
\* variable to
NewObject(name, expr, var) == name

\* the content of the object of every variable bound so far
Namespace(r) == [v \in DOMAIN r.var |-> r.ns[r.var[v]]]

\* mutant: dict.get, no error for a name that is absent
get_argsOrNone(models, model) ==
  IF model \in DOMAIN models
    THEN [error |-> "none", result |-> models[model]]
    ELSE [error |-> "none", result |-> "None"]

\* defaults.py:211-212: MODELS[model]; KeyError for a name that is absent
get_args(models, model) ==
  IF model \in DOMAIN models
    THEN [error |-> "none", result |-> models[model]]
    ELSE [error |-> "KeyError", result |-> "none"]

\* the names get_args is called with: those of the catalogue, names that
\* differ from them only in case, a module variable that is not in the
\* catalogue, and others
QueryNames ==
  DOMAIN MODELS \cup {"dqn", "Dqn", "c51", "ppo", "bstrapdqn_ucb", "dqn_spec",
                      "MODELS", "A3C", ""}

\* the keys a caller subscripts a preset with: every key of some preset, and
\* one that no preset has
QueryKeys ==
  UNION {DOMAIN Assignments[i][2].over : i \in DOMAIN Assignments}
    \cup {"learn_rate"}

\* the module is about to be imported
RegInit ==
  /\ reg = [pc |-> "import", next |-> 1, var |-> EmptyDict, ns |-> EmptyDict,
            models |-> EmptyDict, model |-> "", error |-> "none",
            result |-> "none", key |-> "", value |-> "none", writes |-> <<>>]
  /\ AgentInit("none")
  /\ warm_up = 0 /\ train_freq = 1 /\ eval_len = 0 /\ t_eval = 0
  /\ eval_freq = 1
  /\ bufSeq = <<>>
  /\ c51 = C51Idle
  /\ main = MainIdle

\* import: the next assignment of the module binds its variable to a new dict
RegAssign ==
  /\ reg.pc = "import"
  /\ reg.next <= Len(Assignments)
  /\ LET name == Assignments[reg.next][1]
         expr == Assignments[reg.next][2]
         obj  == NewObject(name, expr, reg.var)
     IN  reg' = [reg EXCEPT
                   !.var = (name :> obj) @@ reg.var,
                   !.ns = (obj :> EvalExpr(expr, Namespace(reg))) @@ reg.ns,
                   !.next = reg.next + 1]
  /\ UNCHANGED <<agentVars, c51, main>>

\* import: defaults.py:197-208, MODELS = dict(DQN=DQN, ...)
RegModels ==
  /\ reg.pc = "import"
  /\ reg.next = Len(Assignments) + 1
  /\ reg' = [reg EXCEPT
                !.models = [n \in DOMAIN MODELS |-> reg.var[MODELS[n]]],
                !.pc = "ready"]
  /\ UNCHANGED <<agentVars, c51, main>>

\* a caller calls get_args(model)
RegGetArgs ==
  /\ reg.pc = "ready"
  /\ \E model \in QueryNames :
       LET r == get_args(reg.models, model)
       IN  reg' = [reg EXCEPT !.model = model, !.error = r.error,
                              !.result = r.result, !.pc = "called"]
  /\ UNCHANGED <<agentVars, c51, main>>

\* the caller subscripts the preset it was given: get_args(model)[key]
RegSubscript ==
  /\ reg.pc = "called"
  /\ reg.error = "none"
  /\ \E key \in QueryKeys :
       reg' = [reg EXCEPT
                 !.key = key,
                 !.error = IF key \in DOMAIN reg.ns[reg.result]
                             THEN "none" ELSE "KeyError",
                 !.value = IF key \in DOMAIN reg.ns[reg.result]
                             THEN reg.ns[reg.result][key] ELSE "none",
                 !.pc = "read"]
  /\ UNCHANGED <<agentVars, c51, main>>

RegNext ==
  \/ RegAssign
  \/ RegModels
  \/ RegGetArgs
  \/ RegSubscript

RegSpec == RegInit /\ [][RegNext]_vars

\* callers that write: the assignments to a returned preset are capped, a
\* caller sets one of the keys SetKeys to the value SetValue.
\* target_update_period is a key of the shared base that BstrapDQN_UCB
\* overrides and REINFORCE and PPO do not have; n_heads is a key of
\* BstrapDQN that the presets built from it inherit and no other preset has.
MaxWrites == 1
SetValue == 7
SetKeys == {"target_update_period", "n_heads"}

\* d[key] = value on a dict
SetItem(d, key, value) == (key :> value) @@ d

\* the caller assigns to a key of the preset it was given:
\* get_args(model)[key] = value
RegSetItem ==
  /\ reg.pc = "called"
  /\ reg.error = "none"
  /\ Len(reg.writes) < MaxWrites
  /\ \E key \in SetKeys :
       reg' = [reg EXCEPT
                 !.ns[reg.result] = SetItem(@, key, SetValue),
                 !.writes = Append(@, <<reg.model, key, SetValue>>),
                 !.pc = "ready"]
  /\ UNCHANGED <<agentVars, c51, main>>

RegWriteNext ==
  \/ RegNext
  \/ RegSetItem

RegWriteSpec == RegInit /\ [][RegWriteNext]_vars

\* ------------------------------------------------- examples/run_dqn_agent.py
\* Exploration rates are in hundredths: 1.0 is 100 and 0.01 is 1
\* (run_dqn_agent.py:109, :111).
EpsStart == 100
EpsEnd == 1
EpsOff == 0

\* rltf.schedules.ConstSchedule(value)
ConstSchedule(value) == [type |-> "ConstSchedule", value |-> value]

\* rltf.schedules.PiecewiseSchedule(endpoints, outside_value)
PiecewiseSchedule(endpoints, outside_value) ==
  [type |-> "PiecewiseSchedule", endpoints |-> endpoints,
   outside_value |-> outside_value]

\* the value of a schedule at step t, as a fraction num / den: the constant;
\* or the linear interpolation between the two endpoints around t, and the
\* outside value beyond the last endpoint
ScheduleValue(sch, t) ==
  IF sch.type = "ConstSchedule" THEN [num |-> sch.value, den |-> 1]
  ELSE LET segs == {i \in 1..(Len(sch.endpoints) - 1) :
                      /\ sch.endpoints[i][1] <= t
                      /\ t < sch.endpoints[i + 1][1]}
       IN  IF segs = {} THEN [num |-> sch.outside_value, den |-> 1]
           ELSE LET i == CHOOSE j \in segs : TRUE
                    l == sch.endpoints[i]
                    r == sch.endpoints[i + 1]
                IN  [num |-> l[2] * (r[1] - l[1]) + (t - l[1]) * (r[2] - l[2]),
                     den |-> r[1] - l[1]]

\* mutant: an explore_decay of 0 also builds the piecewise schedule
make_explorationFromZero(explore_decay) ==
  IF explore_decay >= 0
    THEN PiecewiseSchedule(<< <<0, EpsStart>>, <<explore_decay, EpsEnd>> >>,
                           EpsEnd)
    ELSE ConstSchedule(EpsOff)

\* run_dqn_agent.py:107-111
make_exploration(explore_decay) ==
  IF explore_decay > 0
    THEN PiecewiseSchedule(<< <<0, EpsStart>>, <<explore_decay, EpsEnd>> >>,
                           EpsEnd)
    ELSE ConstSchedule(EpsOff)

\* the values of --mode: the two the flag is meant for, and others
Modes == {"train", "eval", "TRAIN", "test"}

\* mutant: eval() is run only for the mode 'eval'
MainBranchEvalOnly(run_mode) == IF run_mode = "eval" THEN "run_eval" ELSE "run_train"

\* run_dqn_agent.py:165-168
MainBranch(run_mode) == IF run_mode = "train" THEN "run_train" ELSE "run_eval"

\* main() is about to run, for every mode and explore_decay within the bounds,
\* with an agent of either strategy that trains from its second step on
MainInit ==
  /\ \E m \in Modes, d \in (0 - 1)..MaxDecay :
       main = [pc |-> "start", mode |-> m, explore_decay |-> d,
               exploration |-> "none", calls |-> <<>>]
  /\ \E s \in {"par", "seq"} : AgentInit(s)
  /\ warm_up = start_step + 1
  /\ train_freq = 1
  /\ eval_len \in 0..MaxEvalLen
  /\ eval_freq = MaxEvalFreq
  /\ t_eval = 0
  /\ bufSeq = <<>>
  /\ c51 = C51Idle
  /\ reg = RegIdle

\* run_dqn_agent.py:159 and :107-111: make_agent() builds the exploration
\* schedule and the agent
MainMakeAgent ==
  /\ main.pc = "start"
  /\ main' = [main EXCEPT !.exploration = make_exploration(main.explore_decay),
                          !.pc = "made"]
  /\ UNCHANGED <<agentVars, c51, reg>>

\* run_dqn_agent.py:162: dqn_agent.build()
MainBuild ==
  /\ main.pc = "made"
  /\ main' = [main EXCEPT !.calls = Append(main.calls, "build"),
                          !.pc = "built"]
  /\ UNCHANGED <<agentVars, c51, reg>>

\* run_dqn_agent.py:165-168: dqn_agent.train() or dqn_agent.eval() is called;
\* eval() runs in the calling thread
MainRun ==
  /\ main.pc = "built"
  /\ LET to == MainBranch(main.mode)
     IN  /\ main' = [main EXCEPT
                       !.calls = Append(main.calls,
                                        IF to = "run_train" THEN "train"
                                        ELSE "eval"),
                       !.pc = to]
         /\ pcE' = IF to = "run_eval" THEN "ev_mode" ELSE pcE
  /\ UNCHANGED <<cfgVars, pcM, tE, pcT, tT, eventVars, bufVars, flagVars,
                 learn_started, action, obs, evalVars, trainLog, updLog,
                 saveLog, sigLog, actLog, bufSeq, evLog, selLog, smpLog, c51,
                 reg>>

\* train() or eval() has returned to main
MainReturned ==
  \/ main.pc = "run_train" /\ pcM = "returned"
  \/ main.pc = "run_eval" /\ pcE = "done"

\* run_dqn_agent.py:171: dqn_agent.close()
MainClose ==
  /\ MainReturned
  /\ main' = [main EXCEPT !.calls = Append(main.calls, "close"),
                          !.pc = "closed"]
  /\ UNCHANGED <<agentVars, c51, reg>>

MainNext ==
  \/ MainMakeAgent
  \/ MainBuild
  \/ MainRun
  \/ MainClose
  \/ StartThreads
  \/ Join
  \/ InterruptNext
  \/ EvalNext
  \/ EnvNext
  \/ ParEnvNext
  \/ TrainStepNext
  \/ ParTrainNext
  \/ ExitNext
  \/ SeqNext

MainSpec == MainInit /\ [][MainNext]_vars

\* ================================================================ claims
\* the session runs in progress in each thread of the parallel agent
EnvInSession ==
  pcE \in {"select_run", "inc_run", "ev_read_run", "ev_inc_run", "ev_act_run"}
TrainInSession == pcT \in {"train_run", "update_run", "save_run"}

\* a worker of the parallel agent waits on an event that is clear
EnvBlocked ==
  \/ pcE = "wait_done" /\ ~train_done
  \/ pcE = "store_wait" /\ ~sampled
TrainBlocked ==
  \/ pcT = "wait_act" /\ ~act_chosen
  \/ pcT \in {"wait_stored", "sample_wait"} /\ ~stored

\* one worker has returned and the other waits for a signal of it
WorkerStuck ==
  \/ pcE = "done" /\ TrainBlocked
  \/ pcT = "done" /\ EnvBlocked

\* C1: in the parallel agent no session run of the environment thread
\* (training-action selection, the train-step increment, the runs inside
\* eval()) is in progress while a session run of the training thread (train
\* op, target update, save) is in progress.
C1_SessionMutex == strategy = "par" => ~(EnvInSession /\ TrainInSession)

\* C2: when the environment thread has started to select the action of an
\* iteration t after the first (and no termination was requested), the
\* training thread has completed iteration t - 1 and signalled train_done
\* for it.
C2_SelectAfterTrainDone ==
  (/\ strategy = "par"
   /\ ~terminate
   /\ pcE \in {"select_run", "signal"}
   /\ tE > start_step) => (tE - 1) \in sigLog

\* C3: the train op of iteration t starts only after the environment thread
\* has chosen and signalled the action of iteration t, and train_done is
\* signalled after iteration t only when the train op, the target update and
\* the save that were due in t have returned.
C3_TrainAfterActChosen ==
  strategy = "par" =>
    /\ pcT \in {"train", "train_run"} => tT \in actLog
    /\ trainLog \subseteq actLog
    /\ \A t \in sigLog :
         /\ TrainDue(t) => t \in trainLog
         /\ TrainDue(t) /\ UpdateDue(t) => t \in updLog
         /\ SaveDue(t) => t \in saveLog

\* C3 witness: train_done was signalled after an iteration that ran the train
\* op, the target update and the save, and whose action was chosen.
C3_Witness ==
  /\ strategy = "par"
  /\ \E t \in sigLog : t \in trainLog /\ t \in updLog /\ t \in saveLog
                       /\ t \in actLog

\* C4: once the termination flag is set, no worker of the parallel agent is
\* left waiting on act_chosen, on train_done or on the replay buffer's
\* handshake after the other worker has returned (so both return and train()
\* returns).
C4_TerminationReleasesThreads ==
  (strategy = "par" /\ terminate) => ~WorkerStuck

\* C5: with no termination request, no worker of the parallel agent is left
\* waiting after the other has left its loop, and when both have returned
\* every iteration start_step..stop_step was executed by both.
C5_RunsToStopStep ==
  (strategy = "par" /\ ~terminate) =>
    /\ ~WorkerStuck
    /\ ThreadsDone => /\ Len(buf) = stop_step - start_step + 1
                      /\ sigLog = start_step..stop_step

\* C6: the transitions the parallel agent has stored when its environment
\* thread returns (step, policy kind, evaluation steps run before) are the
\* transitions the sequential agent stored for the same configuration.
C6_SameTransitions ==
  (strategy = "par" /\ pcE = "done" /\ bufSeq # <<>>) => buf = bufSeq

\* the position of eval() is inside its loop or at its end
InEvalLoop ==
  pcE \in {"ev_top", "ev_inc", "ev_inc_run", "ev_act", "ev_act_run", "ev_step",
           "ev_end"}

\* C7 as stated: when eval() is entered with a counter that is not a multiple
\* of eval_len, its first evaluation step is at an eval_len-aligned boundary
\* (the step index, or the counter before it, is a multiple of eval_len).
C7_StartsAtBoundary ==
  (InEvalLoop /\ evEntry % eval_len # 0) =>
     (evStart % eval_len = 0 \/ (evStart - 1) % eval_len = 0)

\* C7 amended: when eval() is entered with a counter c that is not a multiple
\* of eval_len, the evaluation starts at once at step c + 1 and its last step
\* is the first multiple of eval_len above c + 1; uninterrupted, it leaves
\* the counter on that boundary.
C7_EndsAtBoundary ==
  (InEvalLoop /\ evEntry % eval_len # 0) =>
     /\ evStart = evEntry + 1
     /\ (evStop - 1) % eval_len = 0
     /\ evStop - 1 > evEntry + 1
     /\ evStop - 1 - eval_len <= evEntry + 1
     /\ te <= evStop
     /\ (pcE = "ev_end" /\ ~evCut) => t_eval = evStop - 1

\* C7 witness: an uninterrupted eval() entered mid-window has run its steps.
C7_Witness ==
  /\ pcE = "ev_end" /\ ~evCut /\ evSteps > 0
  /\ evEntry % eval_len # 0
  /\ (evEntry + 1) % eval_len # 0

\* C8: after eval() calls that ran to completion (none cut by the
\* termination flag), the persisted eval-step counter is a multiple of
\* eval_len.
C8_CounterAligned ==
  (evCalls >= 1 /\ ~evCut /\ mode = "t") => t_eval % eval_len = 0

\* C8 witness: two uninterrupted eval() calls have returned, the first one
\* entered with a counter of the resumed run, and eval_len is above 1.
C8_Witness ==
  /\ evCalls = 2 /\ ~evCut /\ pcE = "ev_reset"
  /\ eval_len > 1

\* the sum of row r of the projected target, a numerator over Mass
RowSum(r) == SumTo([k \in 1..N |-> c51.target_z[r][k - 1]], N)

\* C9: every row of the projected target distribution sums to 1.
C9_MassConserved ==
  c51.pc = "done" => \A r \in DOMAIN c51.batch : RowSum(r) = Mass

\* the distribution of the clipped reward alone: the unit mass on the bin(s)
\* next to clip(rew, V_min, V_max), split in proportion to distance
RewardPoint(rew) ==
  LET b  == Clip(rew * Den, V_min * Den, V_max * Den) - V_min * Den
      lo == Floor(b, IndDen)
      hi == Ceil(b, IndDen)
  IN  [k \in 0..(N - 1) |->
         IF lo = hi THEN (IF k = lo THEN Mass ELSE 0)
         ELSE IF k = lo THEN ProbUnits * (hi * IndDen - b)
         ELSE IF k = hi THEN ProbUnits * (b - lo * IndDen)
         ELSE 0]

\* C10: for a row with done = true the projected target is the distribution
\* of the clipped reward alone, whatever the target network's distribution
\* and the discount.
C10_DoneIsRewardPoint ==
  c51.pc = "done" =>
    \A r \in DOMAIN c51.batch :
      c51.batch[r].done => c51.target_z[r] = RewardPoint(c51.batch[r].rew)

\* the loop body of iteration tE is being executed, after the evaluation test
InIteration ==
  pcE \in {"select", "select_run", "signal", "inc", "inc_run", "step",
           "store_wait", "store_write", "store_signal", "wait_done",
           "clear_done", "train_check", "in_train"}

\* eval() called from the training loop is in progress, or has just returned
InEvalCall ==
  pcE \in {"ev_mode", "ev_read", "ev_read_run", "ev_top", "ev_inc", "ev_inc_run",
           "ev_act", "ev_act_run", "ev_step", "ev_end", "ev_reset"}

\* iteration t of the training loop has run to its end
IterDone(t) ==
  IF strategy = "par" THEN t \in sigLog
  ELSE t \in selLog /\ (t < tE \/ pcE = "done")

\* C11: in the sequential agent the action of every stored step t was drawn
\* at random if t < warm_up and selected by the training policy if
\* t >= warm_up.
C11_WarmUpPolicy ==
  strategy = "seq" =>
    \A i \in DOMAIN buf :
      buf[i].policy = IF buf[i].t >= warm_up THEN "train" ELSE "random"

\* C12: a batch is sampled and the train op run only at steps t with
\* t >= warm_up and t % train_freq = 0, the train op only after the sample;
\* every iteration t that has run to its end with t >= warm_up and
\* t % train_freq = 0 has run the train op; and while the sequential agent
\* samples for step t the transition of step t is in the buffer.
C12_TrainSchedule ==
  /\ \A t \in smpLog \cup trainLog : t >= warm_up /\ t % train_freq = 0
  /\ trainLog \subseteq smpLog
  /\ \A t \in start_step..stop_step :
       (IterDone(t) /\ t >= warm_up /\ t % train_freq = 0) => t \in trainLog
  /\ (strategy = "seq" /\ pcT \in {"sample_wait", "sample_read", "sample_signal"})
       => \E i \in DOMAIN buf : buf[i].t = tT

\* C12 witness: the parallel agent, run after the sequential one, has finished
\* iterations with a training step and iterations without one.
C12_Witness ==
  /\ strategy = "par" /\ bufSeq # <<>>
  /\ trainLog # {}
  /\ sigLog \ trainLog # {}
  /\ \E t \in trainLog : t > warm_up

\* C13: eval() is called in iteration t only if eval_len > 0 and
\* t % eval_freq = 0, and then before the action of t is selected; the action
\* of such a t is selected only after eval() was called in t and the
\* environment was reset on its return; with eval_len <= 0 it is never called.
C13_EvalSchedule ==
  /\ \A t \in evLog : eval_len > 0 /\ t % eval_freq = 0
  /\ (InIteration /\ eval_len > 0 /\ tE % eval_freq = 0) => tE \in evLog
  /\ \A t \in selLog : (eval_len > 0 /\ t % eval_freq = 0) => t \in evLog
  /\ InEvalCall => tE \notin selLog
  /\ (pcE = "select" /\ tE \in evLog) => obs = "reset"
  /\ eval_len <= 0 => (evCalls = 0 /\ mode = "t")

\* C13 witness: the parallel agent selects the action of its first step
\* after the evaluation block of that step.
C13_Witness ==
  /\ strategy = "par" /\ pcE = "select" /\ tE = start_step
  /\ tE \in evLog /\ evCalls = 1 /\ evSteps > 0

\* C14: after a KeyboardInterrupt in train() the termination flag is set and
\* the replay buffer is flagged to be persisted, as after the termination
\* signal; train() returns only when every worker has returned.
C14_InterruptLikeTerminate ==
  /\ pcM = "intr_join" => (terminate /\ save_buf)
  /\ pcM = "term_join" => (terminate /\ save_buf)
  /\ pcM = "returned" => ThreadsDone

\* C19: in the parallel agent the iteration indices of the two threads
\* differ by at most one.
C19_Lockstep == strategy = "par" => (tE - tT) \in (0 - 1)..1

\* C19 witness: the environment thread is one iteration ahead of a training
\* thread that runs a training step.
C19_Witness ==
  /\ strategy = "par" /\ tE = tT + 1 /\ pcT = "train_run"
  /\ pcE \notin {"top", "done"}

\* C20: the target update runs only in an iteration t whose train op has
\* returned and with t % update_target_freq = 0, before train_done is
\* signalled for t; when train_done is signalled for such a t the update has
\* returned.
C20_TargetUpdate ==
  /\ \A t \in updLog : t \in trainLog /\ t % update_target_freq = 0
  /\ pcT \in {"update", "update_run"} =>
       (tT \in trainLog /\ tT % update_target_freq = 0 /\ ~IterDone(tT))
  /\ \A t \in start_step..stop_step :
       (IterDone(t) /\ t \in trainLog /\ t % update_target_freq = 0)
         => t \in updLog

\* C20 witness: train_done was signalled after a training step with a target
\* update and after a training step without one.
C20_Witness ==
  /\ strategy = "par"
  /\ \E t \in sigLog : t \in updLog
  /\ \E t \in sigLog : t \in trainLog /\ t \notin updLog


\* the assignments of the module executed so far
Assigned == 1..(reg.next - 1)

\* C15: every preset built from a base has each key of the base, with the
\* override's value where the derived preset overrides the key and the
\* base's value elsewhere (DQN.warm_up = 50000, BstrapDQN_UCB's
\* target_update_period = 40000); the bases are as they were built
\* (target_update_period of BstrapDQN and of dqn_spec is 10000, neither has
\* the keys of a preset derived from it) and BstrapDQN_Ensemble equals
\* BstrapDQN.
C15_PresetComposition ==
  reg.pc # "none" =>
    /\ \A i \in Assigned :
         LET name == Assignments[i][1]
             expr == Assignments[i][2]
         IN  /\ name \in DOMAIN reg.ns
             /\ expr.base # "none" =>
                  \A key \in DOMAIN reg.ns[expr.base] :
                    /\ key \in DOMAIN reg.ns[name]
                    /\ reg.ns[name][key] =
                         IF key \in DOMAIN expr.over THEN expr.over[key]
                         ELSE reg.ns[expr.base][key]
    /\ "dqn_spec" \in DOMAIN reg.ns => reg.ns["dqn_spec"] = dqn_spec.over
    /\ "DQN" \in DOMAIN reg.ns => reg.ns["DQN"]["warm_up"] = 50000
    /\ "BstrapDQN" \in DOMAIN reg.ns =>
         /\ reg.ns["BstrapDQN"]["target_update_period"] = 10000
         /\ DOMAIN reg.ns["BstrapDQN"] =
              DOMAIN dqn_spec.over \cup DOMAIN BstrapDQN.over
    /\ "BstrapDQN_UCB" \in DOMAIN reg.ns =>
         reg.ns["BstrapDQN_UCB"]["target_update_period"] = 40000
    /\ "BstrapDQN_Ensemble" \in DOMAIN reg.ns =>
         reg.ns["BstrapDQN_Ensemble"] = reg.ns["BstrapDQN"]

\* C15 witness: with the whole module imported, a caller has read the
\* overridden target_update_period of BstrapDQN_UCB.
C15_Witness ==
  /\ reg.pc = "read"
  /\ reg.model = "BstrapDQN_UCB"
  /\ reg.key = "target_update_period"
  /\ reg.value = 40000

\* the ten names of the catalogue
CatalogueNames ==
  {"DQN", "DDQN", "C51", "QRDQN", "BstrapDQN", "BstrapDQN_UCB",
   "BstrapDQN_Ensemble", "DDPG", "REINFORCE", "PPO"}

\* C16: get_args(name) returns the preset object bound to the module variable
\* of that name for each of the ten catalogue names, and for any other name
\* raises KeyError and returns nothing; the catalogue is the same after the
\* call.
C16_GetArgs ==
  /\ reg.pc = "called" =>
       /\ reg.model \in CatalogueNames =>
            (reg.error = "none" /\ reg.result = reg.model)
       /\ reg.model \notin CatalogueNames =>
            (reg.error = "KeyError" /\ reg.result = "none")
  /\ reg.pc \in {"ready", "called", "read"} =>
       reg.models = [name \in CatalogueNames |-> name]

\* C16 witness: get_args was called with a catalogue name in lower case and
\* failed.
C16_Witness ==
  /\ reg.pc = "called"
  /\ reg.model = "dqn"
  /\ reg.error = "KeyError"

\* C17: the exploration schedule the entry point builds is, for
\* explore_decay > 0, the piecewise-linear schedule through (0, 1.0) and
\* (explore_decay, 0.01) with the value 0.01 beyond explore_decay, and for
\* explore_decay <= 0 the constant 0.0 (rates in hundredths).
C17_ExplorationSchedule ==
  main.pc \in {"made", "built", "run_train", "run_eval", "closed"} =>
    LET d   == main.explore_decay
        sch == main.exploration
    IN  /\ d > 0 =>
             /\ sch.type = "PiecewiseSchedule"
             /\ sch.endpoints = << <<0, 100>>, <<d, 1>> >>
             /\ sch.outside_value = 1
        /\ d <= 0 => (sch.type = "ConstSchedule" /\ sch.value = 0)
        /\ \A t \in 0..MaxStep :
             LET v == ScheduleValue(sch, t)
             IN  /\ (d > 0 /\ t <= d) => v.num * d = v.den * (100 * d - 99 * t)
                 /\ (d > 0 /\ t > d) => v.num = v.den
                 /\ d <= 0 => v.num = 0

\* C17 witness: the schedule was built for a decay horizon above one step.
C17_Witness ==
  /\ main.pc = "made"
  /\ main.explore_decay > 1
  /\ main.exploration.type = "PiecewiseSchedule"

\* the procedure main has to run for its mode
Chosen == IF main.mode = "train" THEN "train" ELSE "eval"

\* C18: main calls build() first, then train() if the mode is 'train' and
\* eval() for any other mode, never both, and close() only after the chosen
\* procedure has returned; the agent runs nothing before build().
C18_Lifecycle ==
  main.pc # "none" =>
    /\ main.pc \in {"start", "made"} => main.calls = <<>>
    /\ main.pc = "built" => main.calls = <<"build">>
    /\ main.pc \in {"run_train", "run_eval"} =>
         main.calls = <<"build", Chosen>>
    /\ main.pc = "run_train" => main.mode = "train"
    /\ main.pc = "run_eval" => (main.mode # "train" /\ pcM = "start")
    /\ main.pc = "closed" =>
         /\ main.calls = <<"build", Chosen, "close">>
         /\ IF main.mode = "train" THEN pcM = "returned" /\ pcE = "done"
            ELSE pcE = "done" /\ pcM = "start"
    /\ main.pc \in {"start", "made", "built"} =>
         (pcM = "start" /\ pcE = "idle" /\ pcT = "idle")

\* C18 witness: main has closed the agent after an eval() run for a mode that
\* is neither 'train' nor 'eval'.
C18_Witness ==
  /\ main.pc = "closed"
  /\ main.mode = "test"
  /\ evSteps > 0

\* the environment thread writes the buffer's storage; the training thread
\* reads it
StoreWriting == pcE = "store_write"
SampleReading == pcT = "sample_read"

\* the steps whose transition is in the replay buffer
StoredSteps == {buf[i].t : i \in DOMAIN buf}

\* C21: in the parallel agent the write of replay_buf.store and the read of
\* replay_buf.sample are never in progress together, and the training thread
\* reads the batch of iteration t, or passes the catch-up handshake of
\* iteration t, only when the transition of step t is stored.
C21_StoreSampleExclusion ==
  strategy = "par" =>
    /\ ~(StoreWriting /\ SampleReading)
    /\ pcT \in {"sample_read", "sample_signal", "signal_sampled"} =>
         tT \in StoredSteps
    /\ smpLog \subseteq StoredSteps

\* C21 witness: the training thread reads the batch of a step while the
\* environment thread, one iteration ahead, is held in store().
C21_Witness ==
  /\ strategy = "par"
  /\ SampleReading
  /\ pcE = "store_wait" /\ tE = tT + 1
  /\ ~sampled

\* the positions at which eval() has set the monitor's mode and has not yet
\* set it back
InEvalBody ==
  {"ev_read", "ev_read_run", "ev_top", "ev_inc", "ev_inc_run", "ev_act",
   "ev_act_run", "ev_step", "ev_end"}

\* C22: the monitor's mode is 'e' at every environment step of eval() and 't'
\* at every environment step of the training loop; it is 'e' from the entry
\* of eval() on and 't' again once eval() has returned, also when the
\* evaluation loop was cut by the termination flag.
C22_MonitorMode ==
  /\ pcE = "ev_step" => mode = "e"
  /\ pcE = "step" => mode = "t"
  /\ pcE \in InEvalBody => mode = "e"
  /\ pcE \notin (InEvalBody \cup {"raised"}) => mode = "t"

\* C22 witness: the training loop takes its environment step after an eval()
\* call that was cut by the termination flag in the middle of its steps.
C22_Witness ==
  /\ pcE = "step"
  /\ evCut /\ evSteps > 0
  /\ mode = "t"

\* the training thread, or the one thread of the sequential agent, is inside
\* the training part of iteration tT
InTrainPart ==
  pcT \in {"set_learn", "sample_wait", "sample_read", "sample_signal",
           "wait_stored", "signal_sampled", "wait_act", "clear_act", "train",
           "train_run", "update", "update_run", "save", "save_run",
           "signal_done", "log"}

\* eval() is inside an evaluation step
InEvalStep == pcE \in {"ev_inc", "ev_inc_run", "ev_act", "ev_act_run", "ev_step"}

\* C23: once _terminate is set it stays set, and no worker executes anything
\* of an iteration it had not entered when the flag was set: the environment
\* loop no action selection, environment step or store, the training loop
\* no sample, train op, target update or save, and eval() no evaluation step
\* (a bound on the work done, not a promise that a blocked worker returns).
C23_BoundedShutdown ==
  termAt.set =>
    /\ terminate
    /\ (InIteration \/ InEvalCall) => tE <= termAt.env
    /\ \A i \in DOMAIN buf : buf[i].t <= termAt.env
    /\ \A t \in selLog \cup evLog : t <= termAt.env
    /\ InTrainPart => tT <= termAt.net
    /\ \A t \in smpLog \cup trainLog \cup updLog \cup saveLog : t <= termAt.net
    /\ InEvalStep => te <= termAt.ev

\* C23 witness: train() has returned after the flag was set while the parallel
\* agent was in the middle of an iteration before the last; the iteration was
\* finished and no later one was run.
C23_Witness ==
  /\ strategy = "par"
  /\ termAt.set /\ pcM = "returned"
  /\ termAt.env = termAt.net /\ termAt.env < stop_step
  /\ Len(buf) = termAt.env - start_step + 1
  /\ termAt.net \in trainLog

\* C24: in the parallel agent, outside the termination path,
\* _signal_act_chosen is not executed while act_chosen is set and
\* _signal_train_done is not executed while train_done is set.
C24_NoLostSignal ==
  (strategy = "par" /\ ~terminate) =>
    /\ pcE = "signal" => ~act_chosen
    /\ pcT = "signal_done" => ~train_done

\* eval() has left its loop without being cut by the termination flag
EvalRanThrough == pcE = "ev_end" /\ ~evCut

\* C25: an uninterrupted eval() call entered with the counter at a multiple
\* of eval_len has executed exactly eval_len evaluation steps, and entered
\* with any counter it has executed at most eval_len steps.
C25_EvalLength ==
  (EvalRanThrough /\ eval_len >= 1) =>
    /\ evSteps <= eval_len
    /\ evEntry % eval_len = 0 => evSteps = eval_len

\* the variables of the module that are bound to presets
PresetVars == {Assignments[i][1] : i \in DOMAIN Assignments}

\* the right-hand side of the assignment to the variable name
ExprOf(name) ==
  Assignments[CHOOSE i \in DOMAIN Assignments : Assignments[i][1] = name][2]

RECURSIVE Built(_)
\* the preset of the variable name as the import built it
Built(name) ==
  LET expr == ExprOf(name)
  IN  IF expr.base = "none" THEN expr.over
      ELSE Merge(Built(expr.base), expr.over)

RECURSIVE Written(_, _, _)
\* the dict d after the first n writes of the callers, those made through
\* get_args(name) only
Written(d, name, n) ==
  IF n = 0 THEN d
  ELSE LET w == reg.writes[n]
           before == Written(d, name, n - 1)
       IN  IF w[1] = name THEN SetItem(before, w[2], w[3]) ELSE before

\* two dicts have the same keys and the same value for each
SameDict(a, b) == DOMAIN a = DOMAIN b /\ \A k \in DOMAIN a : a[k] = b[k]

\* C26: get_args(name) returns the catalogue's own object: the mapping it
\* returns, and every value later read through it, is the preset as built
\* with every assignment callers made through get_args(name); each preset
\* (among them dqn_spec, BstrapDQN, BstrapDQN_UCB and BstrapDQN_Ensemble)
\* has exactly the keys and values it was built with apart from the
\* assignments made through its own name.
C26_SharedPreset ==
  reg.pc \in {"ready", "called", "read"} =>
    /\ \A v \in PresetVars :
         SameDict(reg.ns[reg.var[v]],
                  Written(Built(v), v, Len(reg.writes)))
    /\ \A n \in CatalogueNames : reg.models[n] = reg.var[n]
    /\ (reg.pc = "called" /\ reg.error = "none") =>
         /\ reg.result = reg.models[reg.model]
         /\ SameDict(reg.ns[reg.result],
                     Written(Built(reg.model), reg.model, Len(reg.writes)))
    /\ (reg.pc = "read" /\ reg.error = "none") =>
         reg.value = Written(Built(reg.model), reg.model,
                             Len(reg.writes))[reg.key]

\* C26 witness: a caller has overridden target_update_period in the preset
\* get_args("BstrapDQN") gave it, and a later get_args("BstrapDQN") reads
\* the new value.
C26_Witness ==
  /\ reg.pc = "read"
  /\ reg.writes = << <<"BstrapDQN", "target_update_period", SetValue>> >>
  /\ reg.model = "BstrapDQN"
  /\ reg.key = "target_update_period"
  /\ reg.value = SetValue

====
